---- MODULE Spec2Model ----
(***************************************************************************)
(* sample_connections_async.py: one coroutine that reads three environment *)
(* inputs, opens an AIProjectClient session, issues four connection-       *)
(* resolver calls, leaves the session, builds a chat client from the last  *)
(* resolved connection and issues one chat-completion request.             *)
(*                                                                         *)
(* pc names the source line of the next suspension point (or "done").      *)
(* Absent values (Python None, an unset environment variable, a local not  *)
(* yet bound) are the string "None" or a record of "none" fields.          *)
(***************************************************************************)
EXTENDS Naturals, Sequences, FiniteSets, TLC

VARIABLES env, store, defaultAIS,
          pc, project_connection_string, connection_name, model_deployment_name,
          session, connections, connection,
          aoai_client, inference_client,
          bearerCalls, calls, exc, error

vars == <<env, store, defaultAIS,
          pc, project_connection_string, connection_name, model_deployment_name,
          session, connections, connection,
          aoai_client, inference_client,
          bearerCalls, calls, exc, error>>

\* Number of Connection records configured in the project.
MaxConns == 2

None == "None"

\* ConnectionType / AuthenticationType members the sample compares against,
\* plus one member of each enumeration that it does not handle.
AZURE_OPEN_AI == "AzureOpenAI"
AZURE_AI_SERVICES == "AzureAIServices"
SERVERLESS == "Serverless"
ConnectionTypes == {AZURE_OPEN_AI, AZURE_AI_SERVICES, SERVERLESS}

API_KEY == "ApiKey"
ENTRA_ID == "EntraId"
SAS == "SAS"
AuthenticationTypes == {API_KEY, ENTRA_ID, SAS}

ConnName(i) == "conn-" \o ToString(i)
Names == {ConnName(i) : i \in 1..MaxConns}

KeyOf(n) == "key:" \o n
CredOf(n) == "cred:" \o n
UrlOf(n) == "https://" \o n

\* A Connection record as the Cloud Connection Service stores it.  key is a
\* field of API-key connections and token_credential of the others; either may
\* be absent (None).
StoredConnections(n) ==
    {c \in [name : {n}, connection_type : ConnectionTypes,
            authentication_type : AuthenticationTypes,
            endpoint_url : {UrlOf(n)},
            key : {None, KeyOf(n)}, token_credential : {None, CredOf(n)}] :
        /\ c.key /= None => c.authentication_type = API_KEY
        /\ c.token_credential /= None => c.authentication_type /= API_KEY}

\* The slot of a name under which the project has no Connection.
NoStored ==
    [name |-> None, connection_type |-> None, authentication_type |-> None,
     endpoint_url |-> None, key |-> None, token_credential |-> None]

\* The Connection object a resolver call hands back: the stored record, its
\* key only when credentials were requested, tagged with the call that
\* produced this object.
Resolved(c, call, include_credentials) ==
    [name |-> c.name, connection_type |-> c.connection_type,
     authentication_type |-> c.authentication_type,
     endpoint_url |-> c.endpoint_url,
     key |-> IF include_credentials THEN c.key ELSE None,
     token_credential |-> c.token_credential,
     origin |-> call]

NoConnection ==
    [name |-> None, connection_type |-> None, authentication_type |-> None,
     endpoint_url |-> None, key |-> None, token_credential |-> None,
     origin |-> None]

NoClient ==
    [variant |-> None, strategy |-> None, credential |-> None,
     endpoint |-> None, origin |-> None, state |-> None]

NoExc == [type |-> None, op |-> None, arg |-> None]

Exc(t, o, a) == [type |-> t, op |-> o, arg |-> a]

\* One request to the Cloud Connection Service or a Chat Completion Service.
Call(o, t, n, ic, m) ==
    [op |-> o, connection_type |-> t, connection_name |-> n,
     include_credentials |-> ic, model |-> m]

PROJECT_CONNECTION_STRING == "PROJECT_CONNECTION_STRING"
CONNECTION_NAME == "CONNECTION_NAME"
MODEL_DEPLOYMENT_NAME == "MODEL_DEPLOYMENT_NAME"
EnvNames == {PROJECT_CONNECTION_STRING, CONNECTION_NAME, MODEL_DEPLOYMENT_NAME}

Init ==
    /\ env \in [EnvNames -> {None, "host;sub;rg;project", "gpt-4o"} \cup Names]
    /\ env[PROJECT_CONNECTION_STRING] \in {None, "host;sub;rg;project"}
    /\ env[CONNECTION_NAME] \in {None} \cup Names
    /\ env[MODEL_DEPLOYMENT_NAME] \in {None, "gpt-4o"}
    /\ store \in [Names -> {NoStored} \cup UNION {StoredConnections(n) : n \in Names}]
    /\ \A n \in Names : store[n].name \in {None, n}
    /\ defaultAIS \in {None} \cup {n \in Names : store[n].connection_type = AZURE_AI_SERVICES}
    /\ pc = "L37"
    /\ project_connection_string = None
    /\ connection_name = None
    /\ model_deployment_name = None
    /\ session = "none"
    /\ connections = <<>>
    /\ connection = NoConnection
    /\ aoai_client = NoClient
    /\ inference_client = NoClient
    /\ bearerCalls = <<>>
    /\ calls = <<>>
    /\ exc = NoExc
    /\ error = NoExc

envVars == <<env, store, defaultAIS>>
localVars == <<project_connection_string, connection_name, model_deployment_name>>
clientVars == <<aoai_client, inference_client, bearerCalls>>

\* An exception leaving the coroutine: it reaches the caller as raised.
Raise(e) == exc' = e /\ error' = e /\ pc' = "done"

\* An exception raised inside the `async with project_client:` block: it is
\* in flight until the block's exit has run.
RaiseInSession(e) == exc' = e /\ pc' = "L46_exit" /\ UNCHANGED error

(***************************************************************************)
(* Session bootstrap, lines 37-46.                                         *)
(***************************************************************************)

\* os.environ[name]: a KeyError when the variable is not set.
ReadProjectConnectionString ==
    /\ pc = "L37"
    /\ IF env[PROJECT_CONNECTION_STRING] = None
       THEN /\ Raise(Exc("KeyError", "os.environ", PROJECT_CONNECTION_STRING))
            /\ UNCHANGED project_connection_string
       ELSE /\ project_connection_string' = env[PROJECT_CONNECTION_STRING]
            /\ pc' = "L38"
            /\ UNCHANGED <<exc, error>>
    /\ UNCHANGED <<envVars, connection_name, model_deployment_name, session,
                   connections, connection, clientVars, calls>>

ReadConnectionName_get ==
    /\ pc = "L38"
    /\ connection_name' = env[CONNECTION_NAME]
    /\ pc' = "L39"
    /\ UNCHANGED <<envVars, project_connection_string, model_deployment_name,
                   session, connections, connection, clientVars, calls, exc, error>>

ReadConnectionName ==
    /\ pc = "L38"
    /\ IF env[CONNECTION_NAME] = None
       THEN /\ Raise(Exc("KeyError", "os.environ", CONNECTION_NAME))
            /\ UNCHANGED connection_name
       ELSE /\ connection_name' = env[CONNECTION_NAME]
            /\ pc' = "L39"
            /\ UNCHANGED <<exc, error>>
    /\ UNCHANGED <<envVars, project_connection_string, model_deployment_name,
                   session, connections, connection, clientVars, calls>>

ReadModelDeploymentName ==
    /\ pc = "L39"
    /\ IF env[MODEL_DEPLOYMENT_NAME] = None
       THEN /\ Raise(Exc("KeyError", "os.environ", MODEL_DEPLOYMENT_NAME))
            /\ UNCHANGED model_deployment_name
       ELSE /\ model_deployment_name' = env[MODEL_DEPLOYMENT_NAME]
            /\ pc' = "L41"
            /\ UNCHANGED <<exc, error>>
    /\ UNCHANGED <<envVars, project_connection_string, connection_name, session,
                   connections, connection, clientVars, calls>>

\* AIProjectClient.from_connection_string(...): the session object exists,
\* nothing is open yet.
CreateProjectClient ==
    /\ pc = "L41"
    /\ session' = "created"
    /\ pc' = "L46"
    /\ UNCHANGED <<envVars, localVars, connections, connection, clientVars,
                   calls, exc, error>>

\* async with project_client: entry.
ProjectClientAenter ==
    /\ pc = "L46"
    /\ session' = "open"
    /\ pc' = "L49"
    /\ UNCHANGED <<envVars, localVars, connections, connection, clientVars,
                   calls, exc, error>>

(***************************************************************************)
(* Connection Resolver (project_client.connections), as the Cloud          *)
(* Connection Service answers it.                                          *)
(***************************************************************************)

AllStored == [i \in 1..MaxConns |-> store[ConnName(i)]]

Tagged(s, call) == [i \in 1..Len(s) |-> Resolved(s[i], call, FALSE)]

\* connections.list(connection_type=filter): every Connection of the project,
\* or those of one type; an empty sequence is a valid answer.
ListConnections(filter) ==
    Tagged(SelectSeq(AllStored,
                     LAMBDA c : /\ c.name /= None
                                /\ (filter = None \/ c.connection_type = filter)),
           IF filter = None THEN "list" ELSE "list_filtered")

\* connections.get_default(connection_type=AzureAIServices, include_credentials)
HasDefault == defaultAIS /= None

GetDefaultConnection(include_credentials) ==
    Resolved(store[defaultAIS], "get_default", include_credentials)

\* connections.get(connection_name=name, include_credentials)
Exists(name) == name \in Names /\ store[name].name /= None

GetConnectionByName(name, include_credentials) ==
    Resolved(store[name], "get", include_credentials)

\* Any request to a remote service may fail with an opaque error.
RemoteServiceError(op) == Exc("RemoteServiceError", op, None)

NotFoundError(op, what) == Exc("NotFoundError", op, what)

(***************************************************************************)
(* The body of `async with project_client:`, lines 49-76.                  *)
(***************************************************************************)

\* for connection in connections: print(connection) -- the loop variable is
\* the function's local `connection`, left at the last element.
LoopVariable(conns, cur) == IF conns = <<>> THEN cur ELSE conns[Len(conns)]

ListAllCall == Call("connections.list", None, None, FALSE, None)
ListOpenAICall == Call("connections.list", AZURE_OPEN_AI, None, FALSE, None)
GetDefaultCall == Call("connections.get_default", AZURE_AI_SERVICES, None, TRUE, None)
GetCall(name) == Call("connections.get", None, name, TRUE, None)

\* Lines 49-52.
ListAll ==
    /\ pc = "L49"
    /\ calls' = Append(calls, ListAllCall)
    /\ \/ /\ RaiseInSession(RemoteServiceError("connections.list"))
          /\ UNCHANGED <<connections, connection>>
       \/ /\ connections' = ListConnections(None)
          /\ connection' = LoopVariable(connections', connection)
          /\ pc' = "L55"
          /\ UNCHANGED <<exc, error>>
    /\ UNCHANGED <<envVars, localVars, session, clientVars>>

\* Lines 55-60.
ListOpenAI ==
    /\ pc = "L55"
    /\ calls' = Append(calls, ListOpenAICall)
    /\ \/ /\ RaiseInSession(RemoteServiceError("connections.list"))
          /\ UNCHANGED <<connections, connection>>
       \/ /\ connections' = ListConnections(AZURE_OPEN_AI)
          /\ connection' = LoopVariable(connections', connection)
          /\ pc' = "L63"
          /\ UNCHANGED <<exc, error>>
    /\ UNCHANGED <<envVars, localVars, session, clientVars>>

\* A get_default whose failure is caught and skipped over.
GetDefault_swallow ==
    /\ pc = "L63"
    /\ calls' = Append(calls, GetDefaultCall)
    /\ IF HasDefault
       THEN connection' = GetDefaultConnection(TRUE)
       ELSE UNCHANGED connection
    /\ pc' = "L71"
    /\ UNCHANGED <<envVars, localVars, session, connections, clientVars, exc, error>>

\* Lines 63-68.
GetDefault ==
    /\ pc = "L63"
    /\ calls' = Append(calls, GetDefaultCall)
    /\ \/ /\ RaiseInSession(RemoteServiceError("connections.get_default"))
          /\ UNCHANGED connection
       \/ /\ ~HasDefault
          /\ RaiseInSession(NotFoundError("connections.get_default", AZURE_AI_SERVICES))
          /\ UNCHANGED connection
       \/ /\ HasDefault
          /\ connection' = GetDefaultConnection(TRUE)
          /\ pc' = "L71"
          /\ UNCHANGED <<exc, error>>
    /\ UNCHANGED <<envVars, localVars, session, connections, clientVars>>

\* A get by name whose result is bound to another local, so that `connection`
\* stays what get_default made it.
GetByName_other_local ==
    /\ pc = "L71"
    /\ calls' = Append(calls, GetCall(connection_name))
    /\ \/ /\ RaiseInSession(RemoteServiceError("connections.get"))
       \/ /\ ~Exists(connection_name)
          /\ RaiseInSession(NotFoundError("connections.get", connection_name))
       \/ /\ Exists(connection_name)
          /\ pc' = "L46_exit"
          /\ UNCHANGED <<exc, error>>
    /\ UNCHANGED <<envVars, localVars, session, connections, connection, clientVars>>

\* Lines 71-76.
GetByName ==
    /\ pc = "L71"
    /\ calls' = Append(calls, GetCall(connection_name))
    /\ \/ /\ RaiseInSession(RemoteServiceError("connections.get"))
          /\ UNCHANGED connection
       \/ /\ ~Exists(connection_name)
          /\ RaiseInSession(NotFoundError("connections.get", connection_name))
          /\ UNCHANGED connection
       \/ /\ Exists(connection_name)
          /\ connection' = GetConnectionByName(connection_name, TRUE)
          /\ pc' = "L46_exit"
          /\ UNCHANGED <<exc, error>>
    /\ UNCHANGED <<envVars, localVars, session, connections, clientVars>>

\* What the session's own exit handler does to it: releases its transport.
SessionExited == "closed"

\* A block that ends with an explicit close() in place of a scoped exit: the
\* session is released only when the block ended normally.
ProjectClientAexit_normal_only ==
    /\ pc = "L46_exit"
    /\ IF exc = NoExc
       THEN session' = SessionExited /\ pc' = "L79" /\ UNCHANGED error
       ELSE UNCHANGED session /\ pc' = "done" /\ error' = exc
    /\ UNCHANGED <<envVars, localVars, connections, connection, clientVars,
                   calls, exc>>

\* Leaving `async with project_client:` (line 46): the exit handler runs
\* whether or not an exception is in flight; the exception then goes on to
\* the caller, otherwise line 79 is next.
ProjectClientAexit ==
    /\ pc = "L46_exit"
    /\ session' = SessionExited
    /\ IF exc = NoExc
       THEN pc' = "L79" /\ UNCHANGED error
       ELSE pc' = "done" /\ error' = exc
    /\ UNCHANGED <<envVars, localVars, connections, connection, clientVars,
                   calls, exc>>

(***************************************************************************)
(* Client Factory, lines 79-105 and 119-140.  It runs after the            *)
(* `async with` block, on the local `connection`.                          *)
(***************************************************************************)

CognitiveServicesScope == "https://cognitiveservices.azure.com/.default"

\* get_bearer_token_provider(credential, scope): a callable bound to both.
BearerTokenProvider(credential, scope) ==
    "bearer(" \o credential \o ", " \o scope \o ")"

BearerCall(credential, scope) == [credential |-> credential, scope |-> scope]

\* AsyncAzureOpenAI(api_key=... | azure_ad_token_provider=..., azure_endpoint=...)
AsyncAzureOpenAI(strategy, credential, conn) ==
    [variant |-> "AsyncAzureOpenAI", strategy |-> strategy,
     credential |-> credential, endpoint |-> conn.endpoint_url,
     origin |-> conn.origin, state |-> "open"]

\* ChatCompletionsClient(endpoint=..., credential=...)
ChatCompletionsClient(strategy, credential, conn) ==
    [variant |-> "ChatCompletionsClient", strategy |-> strategy,
     credential |-> credential, endpoint |-> conn.endpoint_url,
     origin |-> conn.origin, state |-> "open"]

\* raise ValueError(f"Authentication type {connection.authentication_type} not supported.")
UnsupportedAuthentication(conn) ==
    Exc("ValueError", "client_factory",
        "Authentication type " \o conn.authentication_type \o " not supported.")

\* An AzureOpenAI API-key connection routed through the token-provider path.
CreateOpenAIClientWithApiKey_via_provider ==
    /\ pc = "L79"
    /\ connection.connection_type = AZURE_OPEN_AI
    /\ connection.authentication_type = API_KEY
    /\ bearerCalls' = Append(bearerCalls, BearerCall(connection.key, CognitiveServicesScope))
    /\ aoai_client' = AsyncAzureOpenAI("azure_ad_token_provider",
                          BearerTokenProvider(connection.key, CognitiveServicesScope),
                          connection)
    /\ pc' = "L107"
    /\ UNCHANGED <<envVars, localVars, session, connections, connection,
                   inference_client, calls, exc, error>>

\* Lines 79, 84-90.  The constructor is handed connection.key as it is; with
\* no key its outcome is decided outside this file (the library looks for a
\* key in the process environment and raises when it finds none).
CreateOpenAIClientWithApiKey ==
    /\ pc = "L79"
    /\ connection.connection_type = AZURE_OPEN_AI
    /\ connection.authentication_type = API_KEY
    /\ \/ /\ aoai_client' = AsyncAzureOpenAI("api_key", connection.key, connection)
          /\ pc' = "L107"
          /\ UNCHANGED <<exc, error>>
       \/ /\ connection.key = None
          /\ Raise(Exc("OpenAIError", "AsyncAzureOpenAI", "Missing credentials"))
          /\ UNCHANGED aoai_client
    /\ UNCHANGED <<envVars, localVars, session, connections, connection,
                   inference_client, bearerCalls, calls>>

\* An AzureOpenAI Entra ID connection whose credential is handed over raw, as
\* the Inference-service branch does.
CreateOpenAIClientWithEntraId_unwrapped ==
    /\ pc = "L79"
    /\ connection.connection_type = AZURE_OPEN_AI
    /\ connection.authentication_type = ENTRA_ID
    /\ aoai_client' = AsyncAzureOpenAI("azure_ad_token_provider",
                          connection.token_credential, connection)
    /\ pc' = "L107"
    /\ UNCHANGED <<envVars, localVars, session, connections, connection,
                   inference_client, bearerCalls, calls, exc, error>>

\* Lines 79, 91-103.  cast() checks nothing: an absent token credential is
\* wrapped like a present one.
CreateOpenAIClientWithEntraId ==
    /\ pc = "L79"
    /\ connection.connection_type = AZURE_OPEN_AI
    /\ connection.authentication_type = ENTRA_ID
    /\ bearerCalls' = Append(bearerCalls,
                             BearerCall(connection.token_credential, CognitiveServicesScope))
    /\ aoai_client' = AsyncAzureOpenAI("azure_ad_token_provider",
                          BearerTokenProvider(connection.token_credential,
                                              CognitiveServicesScope),
                          connection)
    /\ pc' = "L107"
    /\ UNCHANGED <<envVars, localVars, session, connections, connection,
                   inference_client, calls, exc, error>>

\* Lines 79, 104-105.
OpenAIUnsupportedAuthentication ==
    /\ pc = "L79"
    /\ connection.connection_type = AZURE_OPEN_AI
    /\ connection.authentication_type \notin {API_KEY, ENTRA_ID}
    /\ Raise(UnsupportedAuthentication(connection))
    /\ UNCHANGED <<envVars, localVars, session, connections, connection,
                   clientVars, calls>>

\* An Inference-service API-key connection given the OpenAI-compatible client.
CreateInferenceClientWithApiKey_wrong_variant ==
    /\ pc = "L79"
    /\ connection.connection_type = AZURE_AI_SERVICES
    /\ connection.authentication_type = API_KEY
    /\ aoai_client' = AsyncAzureOpenAI("api_key", connection.key, connection)
    /\ pc' = "L107"
    /\ UNCHANGED <<envVars, localVars, session, connections, connection,
                   inference_client, bearerCalls, calls, exc, error>>

\* Lines 119, 124-130.  AzureKeyCredential(connection.key or "").
CreateInferenceClientWithApiKey ==
    /\ pc = "L79"
    /\ connection.connection_type = AZURE_AI_SERVICES
    /\ connection.authentication_type = API_KEY
    /\ inference_client' =
          ChatCompletionsClient("AzureKeyCredential",
                                IF connection.key = None THEN "" ELSE connection.key,
                                connection)
    /\ pc' = "L142"
    /\ UNCHANGED <<envVars, localVars, session, connections, connection,
                   aoai_client, bearerCalls, calls, exc, error>>

\* Lines 119, 131-138.  The constructor is handed connection.token_credential
\* as it is; with none its outcome is decided outside this file.
CreateInferenceClientWithEntraId ==
    /\ pc = "L79"
    /\ connection.connection_type = AZURE_AI_SERVICES
    /\ connection.authentication_type = ENTRA_ID
    /\ \/ /\ inference_client' =
                ChatCompletionsClient("AsyncTokenCredential",
                                      connection.token_credential, connection)
          /\ pc' = "L142"
          /\ UNCHANGED <<exc, error>>
       \/ /\ connection.token_credential = None
          /\ Raise(Exc("ValueError", "ChatCompletionsClient",
                       "Parameter 'credential' must not be None."))
          /\ UNCHANGED inference_client
    /\ UNCHANGED <<envVars, localVars, session, connections, connection,
                   aoai_client, bearerCalls, calls>>

\* An Inference-service branch whose last arm is `else:` instead of
\* `elif ... ENTRA_ID:`, so that every other authentication type builds a client.
InferenceUnsupportedAuthentication_builds ==
    /\ pc = "L79"
    /\ connection.connection_type = AZURE_AI_SERVICES
    /\ connection.authentication_type \notin {API_KEY, ENTRA_ID}
    /\ inference_client' =
          ChatCompletionsClient("AsyncTokenCredential",
                                connection.token_credential, connection)
    /\ pc' = "L142"
    /\ UNCHANGED <<envVars, localVars, session, connections, connection,
                   aoai_client, bearerCalls, calls, exc, error>>

\* Lines 119, 139-140.
InferenceUnsupportedAuthentication ==
    /\ pc = "L79"
    /\ connection.connection_type = AZURE_AI_SERVICES
    /\ connection.authentication_type \notin {API_KEY, ENTRA_ID}
    /\ Raise(UnsupportedAuthentication(connection))
    /\ UNCHANGED <<envVars, localVars, session, connections, connection,
                   clientVars, calls>>

\* Lines 79 and 119 both false: the function returns, nothing is built.
ConnectionTypeNotHandled ==
    /\ pc = "L79"
    /\ connection.connection_type \notin {AZURE_OPEN_AI, AZURE_AI_SERVICES}
    /\ pc' = "done"
    /\ UNCHANGED <<envVars, localVars, session, connections, connection,
                   clientVars, calls, exc, error>>

(***************************************************************************)
(* Completion Invoker, lines 107-117 and 142-146.                          *)
(***************************************************************************)

CompletionCall(op) == Call(op, None, None, FALSE, model_deployment_name)

\* Line 107: await aoai_client.chat.completions.create(...).  An error leaves
\* the function from here; line 116 is not reached.
OpenAIComplete ==
    /\ pc = "L107"
    /\ calls' = Append(calls, CompletionCall("chat.completions.create"))
    /\ \/ Raise(RemoteServiceError("chat.completions.create"))
       \/ pc' = "L116" /\ UNCHANGED <<exc, error>>
    /\ UNCHANGED <<envVars, localVars, session, connections, connection, clientVars>>

\* Lines 116-117: await aoai_client.close(); print(...).
OpenAIClose ==
    /\ pc = "L116"
    /\ aoai_client' = [aoai_client EXCEPT !.state = "closed"]
    /\ pc' = "done"
    /\ UNCHANGED <<envVars, localVars, session, connections, connection,
                   inference_client, bearerCalls, calls, exc, error>>

\* Line 142: await inference_client.complete(...).
InferenceComplete ==
    /\ pc = "L142"
    /\ calls' = Append(calls, CompletionCall("complete"))
    /\ \/ Raise(RemoteServiceError("complete"))
       \/ pc' = "L145" /\ UNCHANGED <<exc, error>>
    /\ UNCHANGED <<envVars, localVars, session, connections, connection, clientVars>>

\* Lines 145-146: await inference_client.close(); print(...).
InferenceClose ==
    /\ pc = "L145"
    /\ inference_client' = [inference_client EXCEPT !.state = "closed"]
    /\ pc' = "done"
    /\ UNCHANGED <<envVars, localVars, session, connections, connection,
                   aoai_client, bearerCalls, calls, exc, error>>

Next ==
    \/ ReadProjectConnectionString
    \/ ReadConnectionName
    \/ ReadModelDeploymentName
    \/ CreateProjectClient
    \/ ProjectClientAenter
    \/ ListAll
    \/ ListOpenAI
    \/ GetDefault
    \/ GetByName
    \/ ProjectClientAexit
    \/ CreateOpenAIClientWithApiKey
    \/ CreateOpenAIClientWithEntraId
    \/ OpenAIUnsupportedAuthentication
    \/ CreateInferenceClientWithApiKey
    \/ CreateInferenceClientWithEntraId
    \/ InferenceUnsupportedAuthentication
    \/ ConnectionTypeNotHandled
    \/ OpenAIComplete
    \/ OpenAIClose
    \/ InferenceComplete
    \/ InferenceClose

Spec == Init /\ [][Next]_vars

(***************************************************************************)
(* Properties.                                                             *)
(***************************************************************************)

Done == pc = "done"

Constructed(client) == client.variant /= None

AnyEnvMissing == \E n \in EnvNames : env[n] = None

\* get-by-name has returned its Connection to the function.
ResolvedByName == connection.origin = "get"

\* ... and the client-factory step has run on it.
PastFactory == ResolvedByName /\ pc \notin {"L46_exit", "L79"}

SupportedAuth == connection.authentication_type \in {"ApiKey", "EntraId"}

HandledType == connection.connection_type \in {"AzureOpenAI", "AzureAIServices"}

NotSupportedMessage ==
    "Authentication type " \o connection.authentication_type \o " not supported."

IsCompletion(call) == call.op \in {"chat.completions.create", "complete"}

CompletionSent == \E i \in 1..Len(calls) : IsCompletion(calls[i])

ResolverOrder ==
    << [op |-> "connections.list", connection_type |-> None,
        connection_name |-> None, include_credentials |-> FALSE, model |-> None],
       [op |-> "connections.list", connection_type |-> "AzureOpenAI",
        connection_name |-> None, include_credentials |-> FALSE, model |-> None],
       [op |-> "connections.get_default", connection_type |-> "AzureAIServices",
        connection_name |-> None, include_credentials |-> TRUE, model |-> None],
       [op |-> "connections.get", connection_type |-> None,
        connection_name |-> connection_name, include_credentials |-> TRUE,
        model |-> None] >>

ResolverOps == {"connections.list", "connections.get_default", "connections.get"}

\* C1: in every terminal state of the run, however it ended, no constructed
\* Chat Client is still open.
C1_ChatClientsReleased ==
    Done => aoai_client.state /= "open" /\ inference_client.state /= "open"

\* C2 (as claimed): a resolved Connection whose authentication type is neither
\* ApiKey nor EntraId makes the factory fail with an error naming the type and
\* builds no client, whatever the connection type.
C2_UnsupportedAuthAlwaysFails ==
    (PastFactory /\ ~SupportedAuth) =>
        /\ error.type = "ValueError"
        /\ error.arg = NotSupportedMessage
        /\ ~Constructed(aoai_client) /\ ~Constructed(inference_client)

\* C2 (amended): for such a Connection no client is built and the run is over
\* once the factory has run; it ends with the error naming the type when the
\* connection type is AzureOpenAI or AzureAIServices, and without any error
\* when it is another type.
C2_UnsupportedAuthFailsForHandledTypes ==
    (PastFactory /\ ~SupportedAuth) =>
        /\ Done
        /\ ~Constructed(aoai_client) /\ ~Constructed(inference_client)
        /\ ~CompletionSent
        /\ IF HandledType
           THEN /\ error.type = "ValueError"
                /\ error.arg = NotSupportedMessage
           ELSE error = NoExc

C2_Witness ==
    /\ Done /\ ResolvedByName
    /\ connection.connection_type = "AzureAIServices"
    /\ connection.authentication_type = "SAS"
    /\ error.type = "ValueError"

C4_MissingEnvIsFatalBeforeAnyCall ==
    AnyEnvMissing =>
        /\ session = "none"
        /\ calls = <<>>
        /\ ~Constructed(aoai_client) /\ ~Constructed(inference_client)
        /\ pc \in {"L37", "L38", "L39", "done"}
        /\ Done => /\ error.type = "KeyError"
                   /\ error.arg \in EnvNames
                   /\ env[error.arg] = None

C4_Witness ==
    /\ Done
    /\ error.type = "KeyError"
    /\ error.arg = "MODEL_DEPLOYMENT_NAME"
    /\ project_connection_string /= None /\ connection_name /= None

\* C5: an error raised by a resolver call ends the sequence of requests at
\* that call, no client is built, and the caller receives the error as
\* raised; with no default AzureAIServices connection the get-by-name call is
\* never issued and get_default is the call that failed.
C5_ResolverErrorAborts ==
    /\ exc.op \in ResolverOps =>
          /\ Len(calls) \in 1..4
          /\ calls = SubSeq(ResolverOrder, 1, Len(calls))
          /\ calls[Len(calls)].op = exc.op
          /\ ~Constructed(aoai_client) /\ ~Constructed(inference_client)
          /\ bearerCalls = <<>>
          /\ pc \in {"L46_exit", "done"}
          /\ Done => error = exc
    /\ ~HasDefault =>
          /\ Len(calls) <= 3
          /\ Len(calls) = 3 => /\ exc.op = "connections.get_default"
                               /\ exc.type \in {"NotFoundError", "RemoteServiceError"}
    /\ exc.type = "NotFoundError" /\ exc.op = "connections.get_default" =>
          ~HasDefault /\ exc.arg = "AzureAIServices"

C5_Witness ==
    /\ Done
    /\ error = [type |-> "NotFoundError", op |-> "connections.get_default",
                arg |-> "AzureAIServices"]
    /\ Len(calls) = 3

\* C6: for a resolved AzureOpenAI / ApiKey Connection the token-provider
\* wrapping is never invoked, the only client ever built is the OpenAI-
\* compatible one configured with connection.key, and it is built whenever the
\* Connection carries a key.
C6_ApiKeyNeverUsesTokenProvider ==
    ( /\ ResolvedByName
      /\ connection.connection_type = "AzureOpenAI"
      /\ connection.authentication_type = "ApiKey" ) =>
        /\ bearerCalls = <<>>
        /\ ~Constructed(inference_client)
        /\ Constructed(aoai_client) =>
              /\ aoai_client.variant = "AsyncAzureOpenAI"
              /\ aoai_client.strategy = "api_key"
              /\ aoai_client.credential = connection.key
              /\ aoai_client.endpoint = connection.endpoint_url
        /\ (PastFactory /\ connection.key /= None) => Constructed(aoai_client)

C6_Witness ==
    /\ PastFactory
    /\ connection.connection_type = "AzureOpenAI"
    /\ connection.authentication_type = "ApiKey"
    /\ connection.key /= None
    /\ aoai_client.credential = connection.key

\* C7: for a resolved AzureOpenAI / EntraId Connection the token credential is
\* wrapped exactly once, with audience
\* "https://cognitiveservices.azure.com/.default", and the OpenAI-compatible
\* client is built with that provider; before the factory runs it has not
\* been wrapped at all.
C7_EntraIdWrapsOnce ==
    ( /\ ResolvedByName
      /\ connection.connection_type = "AzureOpenAI"
      /\ connection.authentication_type = "EntraId" ) =>
        IF PastFactory
        THEN /\ bearerCalls =
                  << [credential |-> connection.token_credential,
                      scope |-> "https://cognitiveservices.azure.com/.default"] >>
             /\ aoai_client.variant = "AsyncAzureOpenAI"
             /\ aoai_client.strategy = "azure_ad_token_provider"
             /\ aoai_client.credential =
                   "bearer(" \o connection.token_credential
                             \o ", https://cognitiveservices.azure.com/.default)"
             /\ ~Constructed(inference_client)
        ELSE bearerCalls = <<>>

C7_Witness ==
    /\ Done /\ PastFactory
    /\ connection.connection_type = "AzureOpenAI"
    /\ connection.authentication_type = "EntraId"
    /\ connection.token_credential /= None
    /\ Len(bearerCalls) = 1
    /\ aoai_client.state = "closed"

\* C8: for a resolved AzureOpenAI Connection, when the credential its
\* authentication type needs (key for ApiKey, tokenCredential for EntraId) is
\* absent, no OpenAI-compatible client is built and no completion request is
\* sent.
C8_CredentialRequired ==
    ( /\ ResolvedByName
      /\ connection.connection_type = "AzureOpenAI"
      /\ \/ connection.authentication_type = "ApiKey" /\ connection.key = None
         \/ /\ connection.authentication_type = "EntraId"
            /\ connection.token_credential = None ) =>
        ~Constructed(aoai_client) /\ ~CompletionSent

\* C9: in every terminal state the Project Session is not open, and it is
\* closed whenever it had been opened (a request was made or the run got past
\* the block).
C9_SessionClosedAtExit ==
    /\ Done => session \in {"none", "closed"}
    /\ (Done /\ (calls /= <<>> \/ exc.op \notin {None, "os.environ"})) =>
          session = "closed"

C9_Witness ==
    /\ Done
    /\ session = "closed"
    /\ error.type = "NotFoundError"
    /\ error.op = "connections.get"

\* C10: the requests are issued in the order list, list(AzureOpenAI),
\* get_default, get(CONNECTION_NAME), then at most one completion request;
\* the factory runs, and a client exists, only with the session closed and
\* `connection` being the object get-by-name returned; a client is built from
\* that object.
C10_FactoryUsesNamedConnectionAfterClose ==
    /\ Len(calls) <= 5
    /\ \A i \in 1..Len(calls) :
          IF i <= 4 THEN calls[i] = ResolverOrder[i] ELSE IsCompletion(calls[i])
    /\ (pc \in {"L79", "L107", "L116", "L142", "L145"}
          \/ Constructed(aoai_client) \/ Constructed(inference_client)) =>
          /\ session = "closed"
          /\ Len(calls) >= 4
          /\ connection.origin = "get"
          /\ connection.name = connection_name
          /\ connection.key = store[connection_name].key
    /\ \A client \in {aoai_client, inference_client} :
          Constructed(client) =>
              /\ client.origin = "get"
              /\ client.endpoint = store[connection_name].endpoint_url

C10_Witness ==
    /\ Constructed(aoai_client)
    /\ HasDefault /\ defaultAIS /= connection_name
    /\ Len(calls) = 5
    /\ aoai_client.origin = "get"

====
